---- MODULE Spec2Model ----
(***************************************************************************)
(* Model of pylinger_cosmo.py: the neutrino momentum quadratures ninu1 and *)
(* nu_perturb, the conformal-time derivative dtauda_, and the cosmology    *)
(* initializer cosmo.__init__.                                             *)
(*                                                                         *)
(* Reals are fixed-point integers: the integer x stands for x / Scale.     *)
(* Products and quotients round towards minus infinity, as \div does.      *)
(***************************************************************************)
EXTENDS Integers, Sequences, FiniteSets, TLC

\* ------------------------------------------------------------ arithmetic

Scale == 10^3

FMul(x, y) == (x * y) \div Scale

FDiv(x, y) == (x * Scale) \div y

Last(s) == s[Len(s)]

RECURSIVE SqrtSearch(_, _, _)
SqrtSearch(n, lo, hi) ==
    IF lo >= hi THEN lo
    ELSE LET mid == (lo + hi + 1) \div 2
         IN  IF mid * mid <= n THEN SqrtSearch(n, mid, hi)
                               ELSE SqrtSearch(n, lo, mid - 1)

\* floor of the integer square root; 46340^2 is the largest square in range
ISqrt(n) == SqrtSearch(n, 0, 46340)

\* jnp.sqrt / np.sqrt on a fixed-point value: sqrt(x/S)*S = sqrt(x*S); for large
\* x the radicand x*S is split as (x/10) * 100^2 to stay inside the integers.
Sqrt(x) == IF x < 2000000 THEN ISqrt(x * Scale) ELSE 100 * ISqrt(x \div 10)

\* e^n for n = 0..6
ExpInt == <<1000, 2718, 7389, 20086, 54598, 148413, 403429>>

\* e^x for 0 <= x < 1 by its Taylor polynomial of degree 6
ExpFrac(x) ==
    LET x2 == FMul(x, x)
        x3 == FMul(x2, x)
        x4 == FMul(x3, x)
        x5 == FMul(x4, x)
        x6 == FMul(x5, x)
    IN  Scale + x + (x2 \div 2) + (x3 \div 6) + (x4 \div 24) + (x5 \div 120)
          + (x6 \div 720)

ExpPos(q) == FMul(ExpInt[(q \div Scale) + 1], ExpFrac(q % Scale))

\* jnp.exp / np.exp for -7 < q < 7
Exp(q) == IF q >= 0 THEN ExpPos(q) ELSE FDiv(Scale, ExpPos(-q))

RECURSIVE LnSearch(_, _, _)
LnSearch(x, lo, hi) ==
    IF lo >= hi THEN lo
    ELSE LET mid == (lo + hi + 1) \div 2
         IN  IF ExpPos(mid) <= x THEN LnSearch(x, mid, hi)
                              ELSE LnSearch(x, lo, mid - 1)

\* jnp.log for e^-7 < x < e^7: for x >= 1 the largest l with e^l <= x, and
\* -log(1/x) below 1
Ln(x) == IF x >= Scale THEN LnSearch(x, 0, 7 * Scale - 1)
                       ELSE -LnSearch(FDiv(Scale, x), 0, 7 * Scale - 1)

RECURSIVE SumSeq(_)
SumSeq(s) == IF Len(s) = 0 THEN 0 ELSE s[1] + SumSeq(Tail(s))

\* ------------------------------------------------ the interpolant library

\* InterpolatedUnivariateSpline(x, y): the cubic (k = 3) interpolant of the
\* samples.  Both libraries refuse arrays of different length and fewer than
\* k + 1 = 4 samples.
SplineBuildable(xs, ys) == Len(xs) = Len(ys) /\ Len(xs) > 3

StrictlyIncreasing(xs) == \A j \in 1..(Len(xs) - 1) : xs[j] < xs[j + 1]

InterpolatedUnivariateSpline(xs, ys) == [x |-> xs, y |-> ys]

\* Exact weights w, den with  integral = h * (SUM_j w[j] * y[j]) / den  for the
\* not-a-knot cubic spline through n equidistant samples of spacing h:
\*   "below": samples at h, 2h, ..., nh, integrated over [0, nh]
\*            (the first polynomial piece continues below the first sample);
\*   "half":  samples at 0, h, ..., (n-1)h, integrated over [0, (n-1)h - h/2].
SplineWeights(kind, n) ==
    CASE kind = "below" /\ n = 4 -> [w |-> <<8, -4, 8, 0>>, den |-> 3]
      [] kind = "below" /\ n = 5 -> [w |-> <<261, -144, 266, 56, 41>>, den |-> 96]
      [] kind = "below" /\ n = 6 -> [w |-> <<164, -97, 188, -2, 88, 19>>, den |-> 60]
      [] kind = "half" /\ n = 4 -> [w |-> <<135, 475, 325, 25>>, den |-> 384]
      [] kind = "half" /\ n = 5 ->
            [w |-> <<521, 1976, 1250, 1584, 45>>, den |-> 1536]
      [] kind = "half" /\ n = 6 ->
            [w |-> <<653, 2456, 1601, 2011, 1846, 73>>, den |-> 1920]

\* spline.integral(lo, hi) for the two uses the program makes of it
Integral(sp, lo, hi) ==
    LET n  == Len(sp.x)
        h  == sp.x[2] - sp.x[1]
        kd == IF lo < sp.x[1] THEN "below" ELSE "half"
        t  == SplineWeights(kd, n)
    IN  FMul(h, SumSeq([j \in 1..n |-> t.w[j] * sp.y[j]]) \div t.den)

\* spline(x): the sample at a node, the chord between the neighbouring samples
\* elsewhere, the nearest end sample outside the nodes
Evaluate(sp, x) ==
    LET n == Len(sp.x)
    IN  IF x <= sp.x[1] THEN sp.y[1]
        ELSE IF x >= sp.x[n] THEN sp.y[n]
        ELSE LET j == CHOOSE k \in 1..(n - 1) : sp.x[k] <= x /\ x < sp.x[k + 1]
             IN  sp.y[j] + ((sp.y[j + 1] - sp.y[j]) * (x - sp.x[j]))
                              \div (sp.x[j + 1] - sp.x[j])

\* ------------------------------------------------------------- ninu1

\* const = 7 * pi^4 / 120
Const == 5682

Cube(q) == FMul(FMul(q, q), q)

\* dq = qmax / nq
Dq(nq, qmax) == qmax \div nq

\* q = dq * arange(1, nq + 1)
QGrid(nq, qmax) == [k \in 1..nq |-> Dq(nq, qmax) * k]

\* the mass dropped from the momentum ratio
AqNoMass(a, amnu, q) == FDiv(a, q)

\* aq = a * amnu / q
Aq(a, amnu, q) == FDiv(FMul(a, amnu), q)

\* v = 1 / sqrt(1 + aq**2)
V(aq) == FDiv(Scale, Sqrt(Scale + FMul(aq, aq)))

\* qdn = dq * q**3 / (exp(q) + 1)
Qdn(dq, q) == FDiv(FMul(dq, Cube(q)), Exp(q) + Scale)

\* dum1 = qdn / v
Dum1(a, amnu, nq, qmax) ==
    [k \in 1..nq |->
        LET q == QGrid(nq, qmax)[k]
        IN  FDiv(Qdn(Dq(nq, qmax), q), V(Aq(a, amnu, q)))]

\* dum2 = qdn * v
Dum2(a, amnu, nq, qmax) ==
    [k \in 1..nq |->
        LET q == QGrid(nq, qmax)[k]
        IN  FMul(Qdn(Dq(nq, qmax), q), V(Aq(a, amnu, q)))]

\* the tail term divided by dq before it is added, and the sum divided again
TailNormalizeTwice(integral, last, dq) ==
    FDiv(FDiv(integral + FDiv(last, dq), dq), Const)

\* (integral / dq + dum[-1] / dq) / const
TailNormalize(integral, last, dq) == FDiv(FDiv(integral, dq) + FDiv(last, dq), Const)

\* ninu1(a, amnu, nq, qmax): the pair returned, with the arrays and integrals
\* it was computed from
Ninu1(a, amnu, nq, qmax) ==
    LET dq   == Dq(nq, qmax)
        q    == QGrid(nq, qmax)
        dum1 == Dum1(a, amnu, nq, qmax)
        dum2 == Dum2(a, amnu, nq, qmax)
        i1   == Integral(InterpolatedUnivariateSpline(q, dum1), 0, qmax)
        i2   == Integral(InterpolatedUnivariateSpline(q, dum2), 0, qmax)
    IN  [rhonu |-> TailNormalize(i1, Last(dum1), dq),
         pnu   |-> TailNormalize(i2, Last(dum2), dq) \div 3,
         dq |-> dq, dum1 |-> dum1, dum2 |-> dum2, i1 |-> i1, i2 |-> i2]

\* -------------------------------------------------------- nu_perturb

\* the length of the elementwise combination of arrays of lengths m and n under
\* the array libraries' broadcasting; 0 when the shapes are incompatible
BroadcastLen(m, n) ==
    IF m = n THEN m ELSE IF m = 1 THEN n ELSE IF n = 1 THEN m ELSE 0

\* x * y elementwise, a length-1 operand repeated
BMul(x, y) ==
    [k \in 1..BroadcastLen(Len(x), Len(y)) |->
        FMul(x[IF Len(x) = 1 THEN 1 ELSE k], y[IF Len(y) = 1 THEN 1 ELSE k])]

\* x / y elementwise
BDiv(x, y) ==
    [k \in 1..BroadcastLen(Len(x), Len(y)) |->
        FDiv(x[IF Len(x) = 1 THEN 1 ELSE k], y[IF Len(y) = 1 THEN 1 ELSE k])]

\* g = zeros(nqmax0 + 1); g[1:] = vals, a length-1 vals repeated
Padded(nqmax0, vals) ==
    [k \in 1..(nqmax0 + 1) |->
        IF k = 1 THEN 0 ELSE vals[IF Len(vals) = 1 THEN 1 ELSE k - 1]]

\* whether g[1:] = vals is accepted for a slot of nqmax0 entries
Assignable(nqmax0, len) == len # 0 /\ (len = nqmax0 \/ len = 1)

\* q = arange(1, nqmax0 + 1) - 0.5
QHalf(nqmax0) == [k \in 1..nqmax0 |-> k * Scale - (Scale \div 2)]

\* qq = arange(0, nqmax0 + 1)
QQ(nqmax0) == [k \in 1..(nqmax0 + 1) |-> (k - 1) * Scale]

\* qdn = q**3 / (exp(q) + 1)
QdnPerturb(nqmax0) ==
    [k \in 1..nqmax0 |-> FDiv(Cube(QHalf(nqmax0)[k]), Exp(QHalf(nqmax0)[k]) + Scale)]

VPerturb(a, amnu, nqmax0) ==
    [k \in 1..nqmax0 |-> V(Aq(a, amnu, QHalf(nqmax0)[k]))]

\* the correction taken over the grid's own qmax0 = nqmax0 - 0.5
TailCorrectionLocal(g, qmax) ==
    FDiv(Last(g) * 2, (Len(g) - 1) * Scale - (Scale \div 2))

\* the correction without the sample: 2 / qmax
TailCorrectionNoSample(g, qmax) == FDiv(2 * Scale, qmax)

\* g[-1] * 2 / qmax
TailCorrection(g, qmax) == FDiv(Last(g) * 2, qmax)

\* nu_perturb_jax / nu_perturb_numpy (the two differ only in the array and
\* spline library they call), for psi0 of length at least 1.  The products with
\* psi0 always fit, since q has psi0's length; those with psi1 and psi2 are
\* where a shape error can arise, and the interpolants are built after them.
NuPerturb(a, amnu, psi0, psi1, psi2, qmax) ==
    LET nqmax0 == Len(psi0)
        qmax0  == nqmax0 * Scale - (Scale \div 2)
        qq     == QQ(nqmax0)
        v      == VPerturb(a, amnu, nqmax0)
        qdn    == QdnPerturb(nqmax0)
        r1     == BDiv(BMul(qdn, psi0), v)
        r2     == BMul(BMul(qdn, psi0), v)
        r3     == BMul(qdn, psi1)
        r4     == BMul(BMul(qdn, psi2), v)
        g1     == Padded(nqmax0, r1)
        g2     == Padded(nqmax0, r2)
        g3     == Padded(nqmax0, r3)
        g4     == Padded(nqmax0, r4)
        g01    == Integral(InterpolatedUnivariateSpline(qq, g1), 0, qmax0)
        g02    == Integral(InterpolatedUnivariateSpline(qq, g2), 0, qmax0)
        g03    == Integral(InterpolatedUnivariateSpline(qq, g3), 0, qmax0)
        g04    == Integral(InterpolatedUnivariateSpline(qq, g4), 0, qmax0)
    IN  IF ~Assignable(nqmax0, Len(r3)) \/ ~Assignable(nqmax0, Len(r4))
        THEN [status |-> "raised", error |-> "shape"]
        ELSE IF ~SplineBuildable(qq, g1)
        THEN [status |-> "raised", error |-> "spline"]
        ELSE [status |-> "ok",
              drhonu  |-> FDiv(g01 + TailCorrection(g1, qmax), Const),
              dpnu    |-> FDiv(g02 + TailCorrection(g2, qmax), Const) \div 3,
              fnu     |-> FDiv(g03 + TailCorrection(g3, qmax), Const),
              shearnu |-> (FDiv(g04 + TailCorrection(g4, qmax), Const) * 2) \div 3,
              g |-> <<g1, g2, g3, g4>>, g0 |-> <<g01, g02, g03, g04>>,
              lo |-> 0, hi |-> qmax0]

\* ------------------------------------------------------------ dtauda_

\* the value jnp.sqrt(3.0 / grho2) takes when grho2 is not positive (inf or nan)
NotFinite == -1

\* grho2 is assigned by the first statement alone; the three lines after it
\* are expression statements of their own, evaluated and dropped
Dtauda(a, grhom, grhog, grhor, Omegam, OmegaL, Omegak, Neff, Nmnu, rhonu_spline) ==
    LET grho2 == FMul(FMul(grhom, Omegam), a)
    IN  IF grho2 <= 0 THEN NotFinite ELSE Sqrt(FDiv(3 * Scale, grho2))

\* ------------------------------------------------------------- bounds

\* ninu1 is called with nq in 4..MaxNq (the code's default is 1000)
MaxNq == 5

\* psi0, psi1, psi2 have lengths in 1..MaxLen
MaxLen == 4

\* the number of ninu1 calls one behaviour of SpecNinu makes
MaxCalls == 2

\* qmax : float = 30.
QmaxDefault == 30

\* --------------------------------------------------------------- state

VARIABLES
    args,    \* the arguments of the function under call
    rets,    \* the results of the calls made so far
    pc,      \* cosmo.__init__: the statement to execute next
    kw,      \* cosmo.__init__: the keyword arguments of the caller
    param,   \* cosmo.__init__: self.param
    loc,     \* cosmo.__init__: the local variables
    thermo,  \* the calls pthermo.compute has received
    log      \* the steps executed, in order

vars == <<args, rets, pc, kw, param, loc, thermo, log>>

ctorVars == <<pc, kw, param, loc, thermo, log>>

ctorIdle ==
    /\ pc = "none"
    /\ kw = <<>>
    /\ param = <<>>
    /\ loc = <<>>
    /\ thermo = <<>>
    /\ log = <<>>

\* ------------------------------------------------- ninu1 under call

NinuA == {1, 100, 500, 1000, 1010}

NinuAmnu == {0, 1000, 4000}

NinuQmax == {2000, 4000, 5000}

InitNinu ==
    /\ args \in [amnu : NinuAmnu, nq : 4..MaxNq, qmax : NinuQmax]
    /\ rets = <<>>
    /\ ctorIdle

CallNinu1 ==
    /\ Len(rets) < MaxCalls
    /\ \E a \in NinuA :
          rets' = Append(rets, [a |-> a, r |-> Ninu1(a, args.amnu, args.nq, args.qmax)])
    /\ UNCHANGED <<args, ctorVars>>

SpecNinu == InitNinu /\ [][CallNinu1]_vars

\* -------------------------------------------- nu_perturb under call

PsiKinds == {"zero", "one", "ramp", "alt"}

Psi(kind, n) ==
    [k \in 1..n |->
        CASE kind = "zero" -> 0
          [] kind = "one"  -> Scale
          [] kind = "ramp" -> k * Scale
          [] kind = "alt"  -> IF k % 2 = 0 THEN Scale \div 2 ELSE -(Scale \div 2)]

PsiSet == {Psi(kind, n) : kind \in PsiKinds, n \in 1..MaxLen}

InitPerturb ==
    /\ args \in [a : {500, 1000}, amnu : {0, 2000}, psi0 : PsiSet, psi1 : PsiSet,
                 psi2 : PsiSet, qmax : {QmaxDefault * Scale}]
    /\ rets = <<>>
    /\ ctorIdle

NuPerturbCall(variant) ==
    /\ rets = <<>>
    /\ rets' = <<[variant |-> variant,
                  r |-> NuPerturb(args.a, args.amnu, args.psi0, args.psi1, args.psi2,
                                  args.qmax)]>>
    /\ UNCHANGED <<args, ctorVars>>

nu_perturb_jax == NuPerturbCall("jax")

nu_perturb_numpy == NuPerturbCall("numpy")

NextPerturb == nu_perturb_jax \/ nu_perturb_numpy

SpecPerturb == InitPerturb /\ [][NextPerturb]_vars

\* ----------------------------------------------- dtauda_ under call

\* neutrino-density interpolants to call dtauda_ with
RhonuSplines ==
    {InterpolatedUnivariateSpline(<<1, 500, 1000, 2000>>, <<1000, 1000, 1000, 1000>>),
     InterpolatedUnivariateSpline(<<1, 500, 1000, 2000>>, <<1000, 1200, 1500, 2200>>)}

InitDtauda ==
    /\ args \in [a : {500, 1000, 2000}, grhom : {1000, 3000}, grhog : {0, 100},
                 grhor : {0, 100}, Omegam : {300, 1000}, OmegaL : {0, 700},
                 Omegak : {0, 100}, Neff : {3046}, Nmnu : {0, 1},
                 rhonu_spline : RhonuSplines]
    /\ rets = <<>>
    /\ ctorIdle

dtauda_ ==
    /\ rets = <<>>
    /\ rets' = <<[r |-> Dtauda(args.a, args.grhom, args.grhog, args.grhor, args.Omegam,
                              args.OmegaL, args.Omegak, args.Neff, args.Nmnu,
                              args.rhonu_spline)]>>
    /\ UNCHANGED <<args, ctorVars>>

SpecDtauda == InitDtauda /\ [][dtauda_]_vars

\* ------------------------------------------------------ cosmo.__init__

\* num_thermo, the length of the scale-factor grid (the code's is 1000)
NumThermo == 4

\* nq and qmax of the initializer's ninu1 calls (the code's defaults are 1000
\* and 30.)
CtorNq == 4

CtorQmax == 4

\* the number of samples of the conformal-time quadrature
RombN == 3

\* c2ok = 1.62581581e4 K / eV
C2ok == 16258158

\* amin = 1e-9: the smallest positive number of the fixed-point grid
AMin == 1

\* amax = 1.01
AMax == 1010

\* The mantissas of 3.3379e-11, 1.4952e-13, 3.3957e-14 and 2.8948e-7; the
\* powers of ten are units the model does not carry.
CGrhom == 3338

CGrhog == 1495

CGrhor == 3396

CAdotrad == 2895

\* d[k] = v
Store(d, k, v) == (k :> v) @@ d

\* the largest r with r^k <= x
IRoot(x, k) == CHOOSE r \in 1..x : (r + 1)^k > x

\* jnp.geomspace(lo, hi, n): n points from lo to hi with a constant ratio
Geomspace(lo, hi, n) ==
    [k \in 1..n |-> IF k = n THEN hi ELSE lo * IRoot(hi \div lo, n - 1)^(k - 1)]

\* romb(f, lo, hi) over n samples equidistant in the integration variable:
\* the first column of the Romberg table.  f is given by its samples.
Romb(samples, lo, hi) ==
    LET n == Len(samples)
        h == (hi - lo) \div (n - 1)
    IN  IF \E k \in 1..n : samples[k] = NotFinite THEN NotFinite
        ELSE FMul(h, SumSeq(samples) - (samples[1] + samples[n]) \div 2)

\* what the spline constructor does with (xs, ys): it refuses arrays it cannot
\* interpolate; abscissas that do not increase violate its precondition, and
\* the initializer checks nothing itself, so either outcome is possible.
BuildOutcomes(xs, ys) ==
    IF ~SplineBuildable(xs, ys) THEN {"raise"}
    ELSE IF StrictlyIncreasing(xs) THEN {"ok"}
    ELSE {"ok", "raise"}

KwSet ==
    [Omegam : {300}, Omegab : {50}, OmegaL : {700}, H0 : {1000}, Tcmb : {1000, 2000},
     YHe : {245}, Neff : {3046}, Nmnu : {0, 1}, mnu : {0, 1},
     rtol : {1, 10}, atol : {1}, order : {3, 5}]

Ramp(n) == [k \in 1..n |-> k * Scale]

\* Ramp(n) with its second and third entries exchanged
Swapped(n) == [k \in 1..n |-> IF k = 2 THEN 3 * Scale ELSE IF k = 3 THEN 2 * Scale
                                                                  ELSE k * Scale]

\* what pthermo.compute may return: the arrays of an external solver
ThOutputs ==
    [tau : {Ramp(NumThermo), Swapped(NumThermo)},
     cs2 : {Ramp(NumThermo)},
     tb  : {Ramp(NumThermo)},
     xe  : {Ramp(NumThermo), Ramp(NumThermo - 1)},
     a   : {Ramp(NumThermo), Swapped(NumThermo), Ramp(NumThermo - 1)}]

InitCosmo ==
    /\ args = <<>>
    /\ rets = <<>>
    /\ pc = "params"
    /\ kw \in KwSet
    /\ param = <<>>
    /\ loc = <<>>
    /\ thermo = <<>>
    /\ log = <<>>

Step(name, idx) == log' = Append(log, <<name, idx>>)

\* an exception leaves __init__: the caller receives no object
RaiseSwallowed(err) ==
    /\ pc' = "done"
    /\ rets' = <<[status |-> "ok", param |-> param]>>

Raise(err) ==
    /\ pc' = "raised"
    /\ rets' = <<[status |-> "raised", error |-> err]>>

\* lines 223-255: the derived densities and self.param
StoreParams ==
    /\ pc = "params"
    /\ LET grhom   == FMul(CGrhom, FMul(kw.H0, kw.H0))
           tcmb2   == FMul(kw.Tcmb, kw.Tcmb)
           grhog   == FMul(CGrhog, FMul(tcmb2, tcmb2))
           grhor   == FMul(CGrhor, FMul(tcmb2, tcmb2))
           adotrad == FMul(CAdotrad, tcmb2)
       IN  /\ loc' = [Omegak |-> 0, grhom |-> grhom, grhog |-> grhog,
                      grhor |-> grhor, adotrad |-> adotrad]
           /\ param' = [Omegam |-> kw.Omegam, Omegab |-> kw.Omegab,
                        OmegaL |-> kw.OmegaL, Omegac |-> kw.Omegam - kw.Omegab,
                        Omegak |-> 0, H0 |-> kw.H0, Tcmb |-> kw.Tcmb,
                        YHe |-> kw.YHe, Neff |-> kw.Neff, Nmnu |-> kw.Nmnu,
                        mnu |-> kw.mnu, grhom |-> grhom, grhog |-> grhog,
                        grhor |-> grhor, adotrad |-> adotrad,
                        amnu |-> FDiv(FMul(kw.mnu, C2ok), kw.Tcmb),
                        amin |-> AMin, amax |-> AMax]
    /\ pc' = "grid"
    /\ Step("params", 0)
    /\ UNCHANGED <<args, rets, kw, thermo>>

\* lines 257-261: the grid and the zeroed result arrays
BuildGrid ==
    /\ pc = "grid"
    /\ loc' = Store(Store(Store(Store(loc,
                 "a", Geomspace(AMin, AMax, NumThermo)),
                 "rhonu", [k \in 1..NumThermo |-> 0]),
                 "pnu", [k \in 1..NumThermo |-> 0]),
                 "i", 0)
    /\ pc' = "loop"
    /\ Step("grid", 0)
    /\ UNCHANGED <<args, rets, kw, param, thermo>>

\* arr.at[i].set(val), i counted from 0
AtSetFirst(arr, i, val) == [arr EXCEPT ![1] = val]

AtSet(arr, i, val) == [arr EXCEPT ![i + 1] = val]

\* lines 262-265: one pass of the loop over the grid
LoopBody ==
    /\ pc = "loop"
    /\ loc.i < NumThermo
    /\ LET r == Ninu1(loc.a[loc.i + 1], param.amnu, CtorNq, CtorQmax * Scale)
       IN  loc' = Store(Store(Store(loc,
                     "rhonu", AtSet(loc.rhonu, loc.i, r.rhonu)),
                     "pnu", AtSet(loc.pnu, loc.i, r.pnu)),
                     "i", loc.i + 1)
    /\ pc' = IF loc.i + 1 = NumThermo THEN "splines" ELSE "loop"
    /\ Step("ninu1", loc.i)
    /\ UNCHANGED <<args, rets, kw, param, thermo>>

\* lines 267-269: rhonu_of_a and pnu_of_a
BuildNuSplines ==
    /\ pc = "splines"
    /\ \E o1 \in BuildOutcomes(loc.a, loc.rhonu), o2 \in BuildOutcomes(loc.a, loc.pnu) :
          IF o1 = "ok" /\ o2 = "ok"
          THEN /\ loc' = Store(loc, "rhonu_spline",
                               InterpolatedUnivariateSpline(loc.a, loc.rhonu))
               /\ param' = Store(Store(param,
                     "rhonu_of_a_spline", InterpolatedUnivariateSpline(loc.a, loc.rhonu)),
                     "pnu_of_a_spline", InterpolatedUnivariateSpline(loc.a, loc.pnu))
               /\ pc' = "tau"
               /\ rets' = rets
          ELSE /\ Raise("spline")
               /\ UNCHANGED <<loc, param>>
    /\ Step("splines", 0)
    /\ UNCHANGED <<args, kw, thermo>>

\* the samples of  lambda loga: exp(loga) * dtauda_(exp(loga), ...)
TauIntegrand(lo, hi) ==
    [k \in 1..RombN |->
        LET loga == lo + ((hi - lo) * (k - 1)) \div (RombN - 1)
            d    == Dtauda(Exp(loga), loc.grhom, loc.grhog, loc.grhor, kw.Omegam,
                           kw.OmegaL, loc.Omegak, kw.Neff, kw.Nmnu, loc.rhonu_spline)
        IN  IF d = NotFinite THEN NotFinite ELSE FMul(Exp(loga), d)]

\* lines 278-281: taumin and taumax
ComputeTau ==
    /\ pc = "tau"
    /\ LET taumin == FDiv(AMin, loc.adotrad)
           r      == Romb(TauIntegrand(Ln(AMin), Ln(AMax)), Ln(AMin), Ln(AMax))
           taumax == IF r = NotFinite THEN NotFinite ELSE taumin + r
       IN  /\ loc' = Store(Store(loc, "taumin", taumin), "taumax", taumax)
           /\ param' = Store(Store(param, "taumin", taumin), "taumax", taumax)
    /\ pc' = "thermo"
    /\ Step("tau", 0)
    /\ UNCHANGED <<args, rets, kw, thermo>>

\* lines 284-286: the keyword arguments pthermo.compute is called with
ComputeArgs ==
    [taumin |-> loc.taumin, taumax |-> loc.taumax, nthermo |-> NumThermo,
     Tcmb |-> kw.Tcmb, YHe |-> kw.YHe, H0 |-> kw.H0, Omegab |-> kw.Omegab,
     Omegam |-> kw.Omegam, OmegaL |-> kw.OmegaL, Neff |-> kw.Neff,
     Nmnu |-> kw.Nmnu, rhonu_sp |-> loc.rhonu_spline]

\* lines 284-286: the call of the thermal-history solver, which returns its
\* arrays or raises
CallThermo ==
    /\ pc = "thermo"
    /\ thermo' = Append(thermo, ComputeArgs)
    /\ \/ /\ Raise("thermo")
          /\ loc' = loc
       \/ \E out \in ThOutputs :
             /\ loc' = Store(loc, "th", out)
             /\ pc' = "cs2"
             /\ rets' = rets
    /\ Step("thermo", 0)
    /\ UNCHANGED <<args, kw, param>>

\* self.param[key] = InterpolatedUnivariateSpline(xs, ys)
BuildSpline(at, key, xs, ys, next) ==
    /\ pc = at
    /\ \E o \in BuildOutcomes(xs, ys) :
          IF o = "ok"
          THEN /\ param' = Store(param, key, InterpolatedUnivariateSpline(xs, ys))
               /\ pc' = next
               /\ rets' = rets
          ELSE /\ Raise("spline")
               /\ param' = param
    /\ Step(at, 0)
    /\ UNCHANGED <<args, kw, loc, thermo>>

\* line 288
BuildCs2 == BuildSpline("cs2", "cs2_of_tau_spline", loc.th.tau, loc.th.cs2, "tempb")

\* line 289
BuildTempb == BuildSpline("tempb", "tempb_of_tau_spline", loc.th.tau, loc.th.tb, "xe")

\* line 290
BuildXe == BuildSpline("xe", "xe_of_tau_spline", loc.th.tau, loc.th.xe, "a_of_tau")

\* line 291
BuildAOfTau ==
    BuildSpline("a_of_tau", "a_of_tau_spline", loc.th.tau, loc.th.a, "tau_of_a")

\* line 292
BuildTauOfA ==
    BuildSpline("tau_of_a", "tau_of_a_spline", loc.th.a, loc.th.tau, "return")

\* the end of __init__: the caller receives the object and its param
Return ==
    /\ pc = "return"
    /\ pc' = "done"
    /\ rets' = <<[status |-> "ok", param |-> param]>>
    /\ Step("return", 0)
    /\ UNCHANGED <<args, kw, param, loc, thermo>>

Next ==
    \/ StoreParams
    \/ BuildGrid
    \/ LoopBody
    \/ BuildNuSplines
    \/ ComputeTau
    \/ CallThermo
    \/ BuildCs2
    \/ BuildTempb
    \/ BuildXe
    \/ BuildAOfTau
    \/ BuildTauOfA
    \/ Return

Spec == InitCosmo /\ [][Next]_vars

\* ------------------------------------------------------------- claims

\* The five-term sum of the conformal-time derivative's documentation
Grho2Full ==
    FMul(FMul(args.grhom, args.Omegam), args.a)
      + args.grhog
      + FMul(args.grhor, args.Neff + args.Nmnu * Evaluate(args.rhonu_spline, args.a))
      + FMul(FMul(args.grhom, args.OmegaL), FMul(FMul(args.a, args.a), FMul(args.a, args.a)))
      + FMul(FMul(args.grhom, args.Omegak), FMul(args.a, args.a))

\* C1: dtauda_ returns sqrt(3 / grho2) with grho2 the full five-term sum
\* (matter, photons, neutrinos, dark energy, curvature).
C1_FiveTermSum ==
    \A k \in 1..Len(rets) : rets[k].r = Sqrt(FDiv(3 * Scale, Grho2Full))

LengthsDiffer ==
    Len(args.psi0) # Len(args.psi1) \/ Len(args.psi0) # Len(args.psi2)

\* C2: a nu_perturb call with psi0, psi1, psi2 not all of the same length ends
\* in an error and never returns four moments.
C2_MismatchedLengthsRaise ==
    \A k \in 1..Len(rets) : LengthsDiffer => rets[k].r.status = "raised"

AllZero(psi) == \A k \in 1..Len(psi) : psi[k] = 0

ZeroPsi ==
    /\ AllZero(args.psi0) /\ AllZero(args.psi1) /\ AllZero(args.psi2)
    /\ ~LengthsDiffer

FourZeros(r) ==
    /\ r.status = "ok"
    /\ r.drhonu = 0 /\ r.dpnu = 0 /\ r.fnu = 0 /\ r.shearnu = 0

C8_TailOverDqTwice ==
    \A k \in 1..Len(rets) :
        LET r == rets[k].r
        IN  /\ r.rhonu = FDiv(FDiv(r.i1 + FDiv(Last(r.dum1), r.dq), r.dq), Const)
            /\ r.pnu = FDiv(FDiv(r.i2 + FDiv(Last(r.dum2), r.dq), r.dq), Const) \div 3

\* C8, amended: the interpolant integral and the final integrand sample are
\* each divided by dq once, their sum is divided by const, and the pressure
\* by 3 more: density = (I1/dq + dum1_last/dq) / const and
\* pressure = (I2/dq + dum2_last/dq) / const / 3, with I1, I2 the integrals of
\* the interpolants of dum1, dum2 over [0, qmax] and dq = qmax / nq.
C8_TailNormalization ==
    \A k \in 1..Len(rets) :
        LET r == rets[k].r
            q == QGrid(args.nq, args.qmax)
        IN  /\ r.dq = args.qmax \div args.nq
            /\ r.i1 = Integral(InterpolatedUnivariateSpline(q, r.dum1), 0, args.qmax)
            /\ r.i2 = Integral(InterpolatedUnivariateSpline(q, r.dum2), 0, args.qmax)
            /\ r.rhonu = FDiv(FDiv(r.i1, r.dq) + FDiv(Last(r.dum1), r.dq), Const)
            /\ r.pnu = FDiv(FDiv(r.i2, r.dq) + FDiv(Last(r.dum2), r.dq), Const) \div 3

C8_Witness ==
    \E k \in 1..Len(rets) :
        /\ rets[k].r.dq # Scale
        /\ Last(rets[k].r.dum1) > 0
        /\ Last(rets[k].r.dum2) > 0

\* C9: each of the four padded arrays has nqmax0 + 1 entries with the first
\* zero; the interpolant is integrated over [0, nqmax0 - 0.5]; the correction
\* added is 2 * (last sample) / qmax with qmax the parameter (30), whatever
\* the length; the sums are divided by const, the pressure by 3 more, the
\* shear times 2/3.
C9_PerturbTail ==
    \A k \in 1..Len(rets) :
        LET r == rets[k].r
            n == Len(args.psi0)
        IN  r.status = "ok" =>
              /\ \A j \in 1..4 : Len(r.g[j]) = n + 1 /\ r.g[j][1] = 0
              /\ \A j \in 1..4 :
                    r.g0[j] = Integral(InterpolatedUnivariateSpline(QQ(n), r.g[j]),
                                       0, n * Scale - (Scale \div 2))
              /\ r.lo = 0 /\ r.hi = n * Scale - (Scale \div 2)
              /\ args.qmax = QmaxDefault * Scale
              /\ r.drhonu = FDiv(r.g0[1] + FDiv(2 * Last(r.g[1]), args.qmax), Const)
              /\ r.dpnu = FDiv(r.g0[2] + FDiv(2 * Last(r.g[2]), args.qmax), Const) \div 3
              /\ r.fnu = FDiv(r.g0[3] + FDiv(2 * Last(r.g[3]), args.qmax), Const)
              /\ r.shearnu =
                    (FDiv(r.g0[4] + FDiv(2 * Last(r.g[4]), args.qmax), Const) * 2) \div 3

C9_Witness ==
    /\ Len(rets) = 1
    /\ rets[1].r.status = "ok"
    /\ Len(args.psi0) = MaxLen
    /\ ~LengthsDiffer
    /\ \A j \in 1..4 : Last(rets[1].r.g[j]) # 0

\* C5: when the solver returns an a array that is not strictly increasing,
\* construction fails and no tau_of_a interpolant is stored over it.
C5_NonMonotonicFails ==
    ("th" \in DOMAIN loc /\ ~StrictlyIncreasing(loc.th.a)) =>
        /\ pc \notin {"return", "done"}
        /\ "tau_of_a_spline" \notin DOMAIN param

BundleKeys ==
    {"taumin", "taumax", "rhonu_of_a_spline", "pnu_of_a_spline", "cs2_of_tau_spline",
     "tempb_of_tau_spline", "xe_of_tau_spline", "a_of_tau_spline", "tau_of_a_spline"}

\* C6: construction either fails and the caller receives no bundle, or returns
\* a bundle holding taumin, taumax and the seven interpolants; nothing is
\* returned before the last step.
C6_Atomic ==
    /\ \A k \in 1..Len(rets) :
          /\ rets[k].status = "ok" => BundleKeys \subseteq DOMAIN rets[k].param
          /\ rets[k].status = "raised" => "param" \notin DOMAIN rets[k]
    /\ pc = "raised" => (Len(rets) = 1 /\ rets[1].status = "raised")
    /\ pc = "done" => (Len(rets) = 1 /\ rets[1].status = "ok")
    /\ pc \notin {"raised", "done"} => rets = <<>>

C6_Witness ==
    /\ pc = "raised"
    /\ "cs2_of_tau_spline" \in DOMAIN param
    /\ "tau_of_a_spline" \notin DOMAIN param
    /\ Len(rets) = 1

\* C7: the rtol, atol and order of the caller reach the solver call unchanged.
C7_TunablesForwarded ==
    \A k \in 1..Len(thermo) :
        /\ {"rtol", "atol", "order"} \subseteq DOMAIN thermo[k]
        /\ thermo[k].rtol = kw.rtol
        /\ thermo[k].atol = kw.atol
        /\ thermo[k].order = kw.order

StepOrder ==
    << <<"params", 0>>, <<"grid", 0>> >>
      \o [k \in 1..NumThermo |-> <<"ninu1", k - 1>>]
      \o << <<"splines", 0>>, <<"tau", 0>>, <<"thermo", 0>>, <<"cs2", 0>>,
            <<"tempb", 0>>, <<"xe", 0>>, <<"a_of_tau", 0>>, <<"tau_of_a", 0>>,
            <<"return", 0>> >>

TauKeys ==
    {"cs2_of_tau_spline", "tempb_of_tau_spline", "xe_of_tau_spline", "a_of_tau_spline"}

\* C10: the initializer's steps occur in one fixed order, none twice: grid,
\* ninu1 once per grid point by increasing index with result i at index i,
\* rhonu_of_a and pnu_of_a, taumin and taumax, one solver call with those
\* taumin, taumax and that rhonu_of_a, and the five interpolants of its output
\* only after it returned.
C10_FixedOrder ==
    /\ Len(log) <= Len(StepOrder)
    /\ \A k \in 1..Len(log) : log[k] = StepOrder[k]
    /\ "i" \in DOMAIN loc =>
          \A j \in 1..NumThermo :
              LET r == Ninu1(loc.a[j], param.amnu, CtorNq, CtorQmax * Scale)
              IN  IF j <= loc.i
                  THEN loc.rhonu[j] = r.rhonu /\ loc.pnu[j] = r.pnu
                  ELSE loc.rhonu[j] = 0 /\ loc.pnu[j] = 0
    /\ "rhonu_of_a_spline" \in DOMAIN param =>
          /\ loc.i = NumThermo
          /\ param.rhonu_of_a_spline = InterpolatedUnivariateSpline(loc.a, loc.rhonu)
          /\ param.pnu_of_a_spline = InterpolatedUnivariateSpline(loc.a, loc.pnu)
    /\ "taumin" \in DOMAIN param => "rhonu_of_a_spline" \in DOMAIN param
    /\ Len(thermo) <= 1
    /\ \A k \in 1..Len(thermo) :
          /\ "taumax" \in DOMAIN param
          /\ thermo[k].taumin = param.taumin
          /\ thermo[k].taumax = param.taumax
          /\ thermo[k].rhonu_sp = param.rhonu_of_a_spline
    /\ \A key \in TauKeys \cup {"tau_of_a_spline"} :
          key \in DOMAIN param =>
              /\ Len(thermo) = 1
              /\ "th" \in DOMAIN loc
              /\ param[key].x = (IF key \in TauKeys THEN loc.th.tau ELSE loc.th.a)

C10_Witness ==
    /\ pc = "done"
    /\ kw.mnu > 0
    /\ Len(log) = Len(StepOrder)
    /\ Len(thermo) = 1

====
